---------------------------- MODULE Spec2Model ----------------------------
(***************************************************************************)
(* Causality assignment of tuc-osg/osg-bondgraphs.                         *)
(*                                                                         *)
(*   Bond                (src/bondgraphs/bond.py)      the causality mark  *)
(*   Element             (src/src/bondgraphs/element.py) arity, bond lists *)
(*   DirectedBondgraph   (src/src/bondgraphs/bondgraph.py) construction    *)
(*   CausalBondgraph     (src/bondgraphs/causalbg.py)  the four phases and *)
(*                                                     the propagation     *)
(*                                                                         *)
(* Element identifiers are the numbers 1..n; a Python tuple (a, b) is the  *)
(* TLA+ tuple <<a, b>>, so Python's t[0], t[1] are t[1], t[2] here; None   *)
(* is the empty tuple.                                                     *)
(***************************************************************************)
EXTENDS Integers, Sequences, FiniteSets, TLC

VARIABLES
    elements,                   \* DirectedBondgraph.__elements, in insertion order
    bonds,                      \* the Bond objects: bonds[i] = <<start, end>>, i the bond's index + 1
    in_bonds,                   \* Element.__in_bonds, per element: bond numbers in attach order
    out_bonds,                  \* Element.__out_bonds
    effort_causality_direction, \* Bond.__effort_causality_direction, per bond
    flow_causality_direction,   \* Bond.__flow_causality_direction, per bond
    pc,                         \* where construction stands
    ret,                        \* the loop a propagation fixed point returns to
    cursor,                     \* position of the running for-loop of phase 3 or 4
    phase,                      \* the phase (1..4) of _assign_causalities being executed
    err,                        \* the exception that aborted construction, if any
    warnings,                   \* bonds printed as "HAS NOT BEEN ASSIGNED YET", in order
    call,                       \* the last call made on the Bond API (Bond-level runs)
    args,                       \* the arguments of DirectedBondgraph.__init__
    loop,                       \* the running `while self.__propagate_causalities()` loop:
                                \* calls made so far, unmarked bonds when it started
    previous                    \* the outcome of the construction made before from equal
                                \* arguments (runs that construct twice)

vars == <<elements, bonds, in_bonds, out_bonds, effort_causality_direction,
          flow_causality_direction, pc, ret, cursor, phase, err, warnings, call,
          args, loop, previous>>

---------------------------------------------------------------------------
(* Bounds of the model *)

MaxElements == 3
MaxBonds == 3
MaxNames == 3
MaxArgElements == 2
\* The number of elements of the graphs of sources, Resistances and junctions
MaxSourceElements == 4
\* The number of elements of the graphs with a Capacitance and an Inertance
MaxStoreElements == 4

---------------------------------------------------------------------------
(* Bond: src/bondgraphs/bond.py *)

None == <<>>

NoExc == ""
ExcTowards == "Causal conflict: causality already set for bond"
ExcFromEffort == "Causal conflict: effort causality already set for bond"
ExcFromFlow == "Causal conflict: flow causality already set for bond"
ExcUnknown == "Unknown element name in bond"
ExcPropagation == "Causal conflict during propagation"
ExcNotSolvable == "not solvable at all"

IsCausalConflict(exc) == exc \in {ExcTowards, ExcFromEffort, ExcFromFlow, ExcPropagation}

\* A Bond object: its end points and its two direction fields.
BondObj(start, end, effort, flow) ==
    [start |-> start, end |-> end, effort |-> effort, flow |-> flow, exc |-> NoExc]

Raise(b, exc) == [b EXCEPT !.exc = exc]

is_causality_set(b) == b.effort # None /\ b.flow # None

\* Mutant: the setter without its two conflict checks.
Mutant_towards_overwrites(b, el_name) ==
    IF b.start = el_name
    THEN [b EXCEPT !.effort = <<b.end, el_name>>, !.flow = <<el_name, b.end>>]
    ELSE IF b.end = el_name
    THEN [b EXCEPT !.effort = <<b.start, el_name>>, !.flow = <<el_name, b.start>>]
    ELSE Raise(b, ExcUnknown)

set_effort_causality_direction_towards(b, el_name) ==
    IF b.effort # None /\ b.effort[2] # el_name THEN Raise(b, ExcTowards)
    ELSE IF b.flow # None /\ b.flow[2] # el_name THEN Raise(b, ExcTowards)
    ELSE IF b.start = el_name
         THEN [b EXCEPT !.effort = <<b.end, el_name>>, !.flow = <<el_name, b.end>>]
    ELSE IF b.end = el_name
         THEN [b EXCEPT !.effort = <<b.start, el_name>>, !.flow = <<el_name, b.start>>]
    ELSE Raise(b, ExcUnknown)

\* Mutant: the flow direction written like the effort direction.
Mutant_from_parallel(b, el_name) ==
    IF b.effort # None /\ b.effort[1] # el_name THEN Raise(b, ExcFromEffort)
    ELSE IF b.flow # None /\ b.flow[1] # el_name THEN Raise(b, ExcFromFlow)
    ELSE IF b.start = el_name
         THEN [b EXCEPT !.effort = <<el_name, b.end>>, !.flow = <<el_name, b.end>>]
    ELSE IF b.end = el_name
         THEN [b EXCEPT !.effort = <<el_name, b.start>>, !.flow = <<el_name, b.start>>]
    ELSE Raise(b, ExcUnknown)

set_effort_causality_direction_from(b, el_name) ==
    IF b.effort # None /\ b.effort[1] # el_name THEN Raise(b, ExcFromEffort)
    ELSE IF b.flow # None /\ b.flow[1] # el_name THEN Raise(b, ExcFromFlow)
    ELSE IF b.start = el_name
         THEN [b EXCEPT !.effort = <<el_name, b.end>>, !.flow = <<b.end, el_name>>]
    ELSE IF b.end = el_name
         THEN [b EXCEPT !.effort = <<el_name, b.start>>, !.flow = <<b.start, el_name>>]
    ELSE Raise(b, ExcUnknown)

\* Mutant: the flow setter delegating to the effort setter of the same name.
Mutant_flow_towards_same_name(b, el_name) ==
    set_effort_causality_direction_towards(b, el_name)

set_flow_causality_direction_towards(b, el_name) ==
    set_effort_causality_direction_from(b, el_name)

set_flow_causality_direction_from(b, el_name) ==
    set_effort_causality_direction_towards(b, el_name)

ExcNoCausality == "No causality relevant for"

\* The getters: what they return and the exception they raise.
get_effort_causality_direction(b) == [value |-> b.effort, exc |-> NoExc]

get_flow_causality_direction(b) == [value |-> b.flow, exc |-> NoExc]

\* Element.is_effort_input of the element `identifier`, asked about bond b
is_effort_input(identifier, b) ==
    LET caus_edge == get_effort_causality_direction(b).value IN
    IF caus_edge = None
    THEN [value |-> None, exc |-> ExcNoCausality]
    ELSE [value |-> (caus_edge[2] = identifier), exc |-> NoExc]

is_flow_input(identifier, b) ==
    LET r == is_effort_input(identifier, b) IN
    IF r.exc # NoExc THEN r ELSE [r EXCEPT !.value = ~r.value]

QueryOps == {"get_effort_causality_direction", "get_flow_causality_direction",
             "is_effort_input", "is_flow_input"}

\* The query `op` about bond b, made by (or for) the element el_name.
Query(op, b, el_name) ==
    CASE op = "get_effort_causality_direction" -> get_effort_causality_direction(b)
      [] op = "get_flow_causality_direction" -> get_flow_causality_direction(b)
      [] op = "is_effort_input" -> is_effort_input(el_name, b)
      [] op = "is_flow_input" -> is_flow_input(el_name, b)

MarkOps == {"set_effort_causality_direction_towards",
            "set_effort_causality_direction_from",
            "set_flow_causality_direction_towards",
            "set_flow_causality_direction_from"}

\* The method `op` of bond b called with el_name.
Invoke(op, b, el_name) ==
    CASE op = "set_effort_causality_direction_towards" ->
            set_effort_causality_direction_towards(b, el_name)
      [] op = "set_effort_causality_direction_from" ->
            set_effort_causality_direction_from(b, el_name)
      [] op = "set_flow_causality_direction_towards" ->
            set_flow_causality_direction_towards(b, el_name)
      [] op = "set_flow_causality_direction_from" ->
            set_flow_causality_direction_from(b, el_name)

\* Bond number i of the current state, as an object.
TheBond(i) ==
    BondObj(bonds[i][1], bonds[i][2],
            effort_causality_direction[i], flow_causality_direction[i])

\* Mutant: the start of the bond returned for its end.
Mutant_get_end_start(i) == bonds[i][1]

\* Bond.get_end of bond number i
get_end(i) == bonds[i][2]

NoErr == [exc |-> NoExc, bond |-> 0, element |-> 0, phase |-> 0]
NoCall == [op |-> "", el_name |-> 0, bond |-> 0, result |-> None]
NoArgs == [elements |-> <<>>, bonds |-> <<>>]
NoLoop == [passes |-> 0, unmarked |-> 0]
NoOutcome == <<>>

---------------------------------------------------------------------------
(* A Bond driven through its public methods by an arbitrary caller. *)

Names == 1..MaxNames

InitBond ==
    /\ elements = <<>>
    /\ \E s \in Names, e \in Names : bonds = << <<s, e>> >>
    /\ in_bonds = <<>>
    /\ out_bonds = <<>>
    /\ effort_causality_direction = << None >>
    /\ flow_causality_direction = << None >>
    /\ pc = "bond"
    /\ ret = ""
    /\ cursor = 0
    /\ phase = 0
    /\ err = NoErr
    /\ warnings = <<>>
    /\ call = NoCall
    /\ args = NoArgs
    /\ loop = NoLoop
    /\ previous = NoOutcome

\* bond.<op>(el_name): the fields after the call and the exception it raised.
CallMark(op, el_name) ==
    /\ pc = "bond"
    /\ LET r == Invoke(op, TheBond(1), el_name) IN
        /\ effort_causality_direction' = << r.effort >>
        /\ flow_causality_direction' = << r.flow >>
        /\ err' = [NoErr EXCEPT !.exc = r.exc, !.bond = IF r.exc = NoExc THEN 0 ELSE 1]
    /\ call' = [op |-> op, el_name |-> el_name, bond |-> 1, result |-> None]
    /\ UNCHANGED <<elements, bonds, in_bonds, out_bonds, pc, ret, cursor, phase, warnings,
                   args, loop, previous>>

CallSetEffortTowards == \E x \in Names : CallMark("set_effort_causality_direction_towards", x)
CallSetEffortFrom == \E x \in Names : CallMark("set_effort_causality_direction_from", x)
CallSetFlowTowards == \E x \in Names : CallMark("set_flow_causality_direction_towards", x)
CallSetFlowFrom == \E x \in Names : CallMark("set_flow_causality_direction_from", x)

\* A query about the bond: the fields stay, the result and the exception are
\* recorded.
CallQuery(op, el_name) ==
    /\ pc = "bond"
    /\ LET r == Query(op, TheBond(1), el_name) IN
        /\ call' = [op |-> op, el_name |-> el_name, bond |-> 1, result |-> r.value]
        /\ err' = [NoErr EXCEPT !.exc = r.exc, !.bond = IF r.exc = NoExc THEN 0 ELSE 1]
    /\ UNCHANGED <<elements, bonds, in_bonds, out_bonds, effort_causality_direction,
                   flow_causality_direction, pc, ret, cursor, phase, warnings,
                   args, loop, previous>>

CallGetDirection ==
    \E op \in {"get_effort_causality_direction", "get_flow_causality_direction"} :
        CallQuery(op, 0)

CallIsInput ==
    \E op \in {"is_effort_input", "is_flow_input"}, x \in Names : CallQuery(op, x)

NextBond ==
    \/ CallSetEffortTowards
    \/ CallSetEffortFrom
    \/ CallSetFlowTowards
    \/ CallSetFlowFrom
    \/ CallGetDirection
    \/ CallIsInput

SpecBond == InitBond /\ [][NextBond]_vars

---------------------------------------------------------------------------
(* Element: src/src/bondgraphs/element.py *)

OnePortKinds == {"Capacitance", "Inertance", "Resistance", "EffortSource", "FlowSource",
                 "EffortSensor", "FlowSensor", "EffortController", "FlowController"}
TwoPortKinds == {"Transformer", "Gyrator"}
JunctionKinds == {"CommonEffortJunction", "CommonFlowJunction"}
Kinds == OnePortKinds \cup TwoPortKinds \cup JunctionKinds

is_oneport(el) == el.kind \in OnePortKinds
is_twoport(el) == el.kind \in TwoPortKinds
is_junction(el) == el.kind \in JunctionKinds

\* An Element object.  solvable_effort / solvable_flow stand for what sympy's solve
\* finds for the constitutive equation (a non-empty solution list or not); they
\* are read for a Resistance only.
ElementObj(kind, se, sf) == [kind |-> kind, solvable_effort |-> se, solvable_flow |-> sf]

ElementVariants ==
    {ElementObj(k, TRUE, TRUE) : k \in Kinds \ {"Resistance"}}
        \cup {ElementObj("Resistance", se, sf) : se \in BOOLEAN, sf \in BOOLEAN}

is_constitutive_equation_solvable_for(el, var_type) ==
    IF var_type = "effort" THEN el.solvable_effort ELSE el.solvable_flow

is_constitutive_equation_invertible(el) ==
    /\ is_constitutive_equation_solvable_for(el, "effort")
    /\ is_constitutive_equation_solvable_for(el, "flow")

\* Mutant: the bond lists are one pair of lists shared by the elements made
\* with the same identifier (a list made once, not per object).
Mutant_Element_init_shared_lists(identifier, obj) ==
    [identifier |-> identifier, obj |-> obj,
     in_bonds |-> IF identifier \in DOMAIN in_bonds THEN in_bonds[identifier] ELSE <<>>,
     out_bonds |-> IF identifier \in DOMAIN out_bonds THEN out_bonds[identifier] ELSE <<>>]

\* Element.__init__: a new element object, its two bond lists empty.
Element_init(identifier, obj) ==
    [identifier |-> identifier, obj |-> obj, in_bonds |-> <<>>, out_bonds |-> <<>>]

\* Mutant: a two-port tested like a junction (fewer than 2 bonds).
Mutant_check_bonds_twoport_at_least(el, ins, outs) ==
    /\ is_oneport(el) => Len(ins) + Len(outs) = 1
    /\ is_twoport(el) => ~(Len(ins) + Len(outs) < 2)
    /\ is_junction(el) => ~(Len(ins) + Len(outs) < 2)

\* check_bonds raises nothing for an element with these bond lists.
check_bonds(el, ins, outs) ==
    /\ is_oneport(el) => Len(ins) + Len(outs) = 1
    /\ is_twoport(el) => Len(ins) + Len(outs) = 2
    /\ is_junction(el) => ~(Len(ins) + Len(outs) < 2)

\* Element.get_bonds of element ekey
get_bonds(ekey) == in_bonds[ekey] \o out_bonds[ekey]

---------------------------------------------------------------------------
(* DirectedBondgraph: src/src/bondgraphs/bondgraph.py *)

Indices(seq) == [i \in 1..Len(seq) |-> i]

\* The bond lists __add_bonds leaves in the elements: bond i is appended to the
\* out list of its start and to the in list of its end, in the order of the list.
add_bonds(n, bondlist) ==
    [in  |-> [e \in 1..n |-> SelectSeq(Indices(bondlist), LAMBDA i : bondlist[i][2] = e)],
     out |-> [e \in 1..n |-> SelectSeq(Indices(bondlist), LAMBDA i : bondlist[i][1] = e)]]

RECURSIVE Concat(_, _)
Concat(lists, k) ==
    IF k > Len(lists) THEN <<>> ELSE lists[k] \o Concat(lists, k + 1)

\* Mutant: the loop over the elements misses the first one.
Mutant_get_bonds_skips_first == Concat(in_bonds, 2)

\* DirectedBondgraph.get_bonds: the in-bonds of every element, in element order
graph_get_bonds == Concat(in_bonds, 1)

---------------------------------------------------------------------------
(* CausalBondgraph.__propagate_causalities: src/bondgraphs/causalbg.py *)

\* The bond marks while a method runs: the two fields of every bond, the local
\* `change`, and the exception raised (with the bond or element it names).
PassState(effort, flow) ==
    [effort |-> effort, flow |-> flow, change |-> FALSE,
     exc |-> NoExc, bond |-> 0, element |-> 0]

BondIn(S, i) == BondObj(bonds[i][1], bonds[i][2], S.effort[i], S.flow[i])

\* bonds[i].<op>(el_name) executed on S
Mark(S, op, i, el_name) ==
    LET r == Invoke(op, BondIn(S, i), el_name) IN
    IF r.exc # NoExc
    THEN [S EXCEPT !.exc = r.exc, !.bond = i]
    ELSE [S EXCEPT !.effort[i] = r.effort, !.flow[i] = r.flow]

Dir(S, view, i) == IF view = "effort" THEN S.effort[i] ELSE S.flow[i]

\* The setter the rules call on an unmarked sibling: side 1 is "from" the
\* element (the element is entry [0] of the direction), side 2 "towards" it.
SetOp(view, side) ==
    CASE view = "effort" /\ side = 1 -> "set_effort_causality_direction_from"
      [] view = "effort" /\ side = 2 -> "set_effort_causality_direction_towards"
      [] view = "flow" /\ side = 1 -> "set_flow_causality_direction_from"

\* Mutant: an incompatible mark of other_bond is passed over instead of raised.
Mutant_Impose_no_raise(S, ekey, view, side, other_bond) ==
    LET d == Dir(S, view, other_bond) IN
    IF d = None
    THEN LET T == Mark(S, SetOp(view, side), other_bond, ekey) IN
         IF T.exc # NoExc THEN T ELSE [T EXCEPT !.change = TRUE]
    ELSE S

\* Mutant: `change = True` set for a sibling that is marked already, too.
Mutant_Impose_change_always(S, ekey, view, side, other_bond) ==
    LET d == Dir(S, view, other_bond) IN
    IF d = None
    THEN LET T == Mark(S, SetOp(view, side), other_bond, ekey) IN
         IF T.exc # NoExc THEN T ELSE [T EXCEPT !.change = TRUE]
    ELSE IF d[side] = ekey THEN [S EXCEPT !.change = TRUE]
    ELSE [S EXCEPT !.exc = ExcPropagation, !.bond = other_bond, !.element = ekey]

\* The body of a rule's inner loop for one other_bond: mark it when unmarked,
\* pass when its direction has ekey at `side`, raise otherwise.
Impose(S, ekey, view, side, other_bond) ==
    LET d == Dir(S, view, other_bond) IN
    IF d = None
    THEN LET T == Mark(S, SetOp(view, side), other_bond, ekey) IN
         IF T.exc # NoExc THEN T ELSE [T EXCEPT !.change = TRUE]
    ELSE IF d[side] = ekey THEN S
    ELSE [S EXCEPT !.exc = ExcPropagation, !.bond = other_bond, !.element = ekey]

\* for other_bond in filter(lambda b: b != bond, element.get_bonds())
RECURSIVE ForOthers(_, _, _, _, _, _, _)
ForOthers(S, ekey, view, side, bond, bs, k) ==
    IF k > Len(bs) \/ S.exc # NoExc THEN S
    ELSE ForOthers(IF bs[k] = bond THEN S ELSE Impose(S, ekey, view, side, bs[k]),
                   ekey, view, side, bond, bs, k + 1)

\* Mutant: the flow junction rule tests entry [0] of the flow direction.
Mutant_Visit_flow_index(S, kind, ekey, bond) ==
    LET bs == get_bonds(ekey)
        e == S.effort[bond]
        f == S.flow[bond]
    IN  CASE kind = "CommonEffortJunction" ->
                IF e # None /\ e[2] = ekey
                THEN ForOthers(S, ekey, "effort", 1, bond, bs, 1) ELSE S
          [] kind = "CommonFlowJunction" ->
                IF f # None /\ f[1] = ekey
                THEN ForOthers(S, ekey, "flow", 1, bond, bs, 1) ELSE S
          [] kind = "Transformer" ->
                IF e # None /\ e[2] = ekey
                THEN ForOthers(S, ekey, "effort", 1, bond, bs, 1)
                ELSE IF e # None /\ e[1] = ekey
                THEN ForOthers(S, ekey, "effort", 2, bond, bs, 1) ELSE S
          [] kind = "Gyrator" ->
                IF e # None /\ e[2] = ekey
                THEN ForOthers(S, ekey, "effort", 2, bond, bs, 1)
                ELSE IF e # None /\ e[1] = ekey
                THEN ForOthers(S, ekey, "effort", 1, bond, bs, 1) ELSE S

\* Mutant: the Transformer rule makes the calls of the Gyrator rule.
Mutant_Visit_transformer_same(S, kind, ekey, bond) ==
    LET bs == get_bonds(ekey)
        e == S.effort[bond]
        f == S.flow[bond]
    IN  CASE kind = "CommonEffortJunction" ->
                IF e # None /\ e[2] = ekey
                THEN ForOthers(S, ekey, "effort", 1, bond, bs, 1) ELSE S
          [] kind = "CommonFlowJunction" ->
                IF f # None /\ f[2] = ekey
                THEN ForOthers(S, ekey, "flow", 1, bond, bs, 1) ELSE S
          [] kind \in {"Transformer", "Gyrator"} ->
                IF e # None /\ e[2] = ekey
                THEN ForOthers(S, ekey, "effort", 2, bond, bs, 1)
                ELSE IF e # None /\ e[1] = ekey
                THEN ForOthers(S, ekey, "effort", 1, bond, bs, 1) ELSE S

\* Mutant: the Gyrator rule makes the calls of the Transformer rule.
Mutant_Visit_gyrator_flips(S, kind, ekey, bond) ==
    LET bs == get_bonds(ekey)
        e == S.effort[bond]
        f == S.flow[bond]
    IN  CASE kind = "CommonEffortJunction" ->
                IF e # None /\ e[2] = ekey
                THEN ForOthers(S, ekey, "effort", 1, bond, bs, 1) ELSE S
          [] kind = "CommonFlowJunction" ->
                IF f # None /\ f[2] = ekey
                THEN ForOthers(S, ekey, "flow", 1, bond, bs, 1) ELSE S
          [] kind \in {"Transformer", "Gyrator"} ->
                IF e # None /\ e[2] = ekey
                THEN ForOthers(S, ekey, "effort", 1, bond, bs, 1)
                ELSE IF e # None /\ e[1] = ekey
                THEN ForOthers(S, ekey, "effort", 2, bond, bs, 1) ELSE S

\* The body of `for bond in element.get_bonds()` of the rule of `kind`.
Visit(S, kind, ekey, bond) ==
    LET bs == get_bonds(ekey)
        e == S.effort[bond]
        f == S.flow[bond]
    IN  CASE kind = "CommonEffortJunction" ->
                IF e # None /\ e[2] = ekey
                THEN ForOthers(S, ekey, "effort", 1, bond, bs, 1) ELSE S
          [] kind = "CommonFlowJunction" ->
                IF f # None /\ f[2] = ekey
                THEN ForOthers(S, ekey, "flow", 1, bond, bs, 1) ELSE S
          [] kind = "Transformer" ->
                IF e # None /\ e[2] = ekey
                THEN ForOthers(S, ekey, "effort", 1, bond, bs, 1)
                ELSE IF e # None /\ e[1] = ekey
                THEN ForOthers(S, ekey, "effort", 2, bond, bs, 1) ELSE S
          [] kind = "Gyrator" ->
                IF e # None /\ e[2] = ekey
                THEN ForOthers(S, ekey, "effort", 2, bond, bs, 1)
                ELSE IF e # None /\ e[1] = ekey
                THEN ForOthers(S, ekey, "effort", 1, bond, bs, 1) ELSE S

RECURSIVE ForBonds(_, _, _, _, _)
ForBonds(S, kind, ekey, bs, j) ==
    IF j > Len(bs) \/ S.exc # NoExc THEN S
    ELSE ForBonds(Visit(S, kind, ekey, bs[j]), kind, ekey, bs, j + 1)

\* for ekey in filter(lambda e: isinstance(elements[e], kind), elements)
RECURSIVE ForElements(_, _, _)
ForElements(S, kind, ekey) ==
    IF ekey > Len(elements) \/ S.exc # NoExc THEN S
    ELSE ForElements(IF elements[ekey].kind = kind
                     THEN ForBonds(S, kind, ekey, get_bonds(ekey), 1) ELSE S,
                     kind, ekey + 1)

\* Mutant: a pass without the loops over Transformers and Gyrators.
Mutant_propagate_junctions_only(S) ==
    ForElements(ForElements(S, "CommonEffortJunction", 1), "CommonFlowJunction", 1)

\* Mutant: a pass without the loop over the Gyrators.
Mutant_propagate_no_gyrators(S) ==
    ForElements(
        ForElements(
            ForElements(S, "CommonEffortJunction", 1),
            "CommonFlowJunction", 1),
        "Transformer", 1)

\* One call of __propagate_causalities: S.change is what it returns.
propagate_causalities(S) ==
    ForElements(
        ForElements(
            ForElements(
                ForElements(S, "CommonEffortJunction", 1),
                "CommonFlowJunction", 1),
            "Transformer", 1),
        "Gyrator", 1)

---------------------------------------------------------------------------
(* CausalBondgraph._assign_causalities: src/bondgraphs/causalbg.py *)

\* for bond in element.get_bonds(): bond.<op>(ekey)
RECURSIVE ForcedBonds(_, _, _, _, _)
ForcedBonds(S, op, ekey, bs, j) ==
    IF j > Len(bs) \/ S.exc # NoExc THEN S
    ELSE ForcedBonds(Mark(S, op, bs[j], ekey), op, ekey, bs, j + 1)

RECURSIVE ForcedKind(_, _, _, _)
ForcedKind(S, kind, op, ekey) ==
    IF ekey > Len(elements) \/ S.exc # NoExc THEN S
    ELSE ForcedKind(IF elements[ekey].kind = kind
                    THEN ForcedBonds(S, op, ekey, get_bonds(ekey), 1) ELSE S,
                    kind, op, ekey + 1)

\* Mutant: the FlowSensor loop calls the setter of the EffortSensor loop.
Mutant_assign_forced_flow_sensor(S) ==
    LET s1 == ForcedKind(S, "EffortSource", "set_effort_causality_direction_from", 1)
        s2 == ForcedKind(s1, "FlowSource", "set_flow_causality_direction_from", 1)
        s3 == ForcedKind(s2, "EffortSensor", "set_flow_causality_direction_from", 1)
        s4 == ForcedKind(s3, "FlowSensor", "set_flow_causality_direction_from", 1)
        s5 == ForcedKind(s4, "EffortController", "set_effort_causality_direction_from", 1)
    IN  ForcedKind(s5, "FlowController", "set_flow_causality_direction_from", 1)

\* 1) the six loops over sources, sensors and controllers
assign_forced(S) ==
    LET s1 == ForcedKind(S, "EffortSource", "set_effort_causality_direction_from", 1)
        s2 == ForcedKind(s1, "FlowSource", "set_flow_causality_direction_from", 1)
        s3 == ForcedKind(s2, "EffortSensor", "set_flow_causality_direction_from", 1)
        s4 == ForcedKind(s3, "FlowSensor", "set_effort_causality_direction_from", 1)
        s5 == ForcedKind(s4, "EffortController", "set_effort_causality_direction_from", 1)
    IN  ForcedKind(s5, "FlowController", "set_flow_causality_direction_from", 1)

\* Mutant: the loop body without its raise.
Mutant_ResistanceBond_no_raise(S, ekey, bond) ==
    IF ~is_constitutive_equation_invertible(elements[ekey])
    THEN IF is_constitutive_equation_solvable_for(elements[ekey], "effort")
         THEN Mark(S, "set_effort_causality_direction_from", bond, ekey)
         ELSE IF is_constitutive_equation_solvable_for(elements[ekey], "flow")
         THEN Mark(S, "set_flow_causality_direction_from", bond, ekey)
         ELSE S
    ELSE S

\* Mutant: the two setter calls of the loop body exchanged.
Mutant_ResistanceBond_setters_swapped(S, ekey, bond) ==
    IF ~is_constitutive_equation_invertible(elements[ekey])
    THEN IF is_constitutive_equation_solvable_for(elements[ekey], "effort")
         THEN Mark(S, "set_flow_causality_direction_from", bond, ekey)
         ELSE IF is_constitutive_equation_solvable_for(elements[ekey], "flow")
         THEN Mark(S, "set_effort_causality_direction_from", bond, ekey)
         ELSE [S EXCEPT !.exc = ExcNotSolvable, !.element = ekey]
    ELSE S

\* 2) the body of the loop over the bonds of Resistance ekey
ResistanceBond(S, ekey, bond) ==
    IF ~is_constitutive_equation_invertible(elements[ekey])
    THEN IF is_constitutive_equation_solvable_for(elements[ekey], "effort")
         THEN Mark(S, "set_effort_causality_direction_from", bond, ekey)
         ELSE IF is_constitutive_equation_solvable_for(elements[ekey], "flow")
         THEN Mark(S, "set_flow_causality_direction_from", bond, ekey)
         ELSE [S EXCEPT !.exc = ExcNotSolvable, !.element = ekey]
    ELSE S

RECURSIVE ResistanceBonds(_, _, _, _)
ResistanceBonds(S, ekey, bs, j) ==
    IF j > Len(bs) \/ S.exc # NoExc THEN S
    ELSE ResistanceBonds(ResistanceBond(S, ekey, bs[j]), ekey, bs, j + 1)

RECURSIVE assign_resistances(_, _)
assign_resistances(S, ekey) ==
    IF ekey > Len(elements) \/ S.exc # NoExc THEN S
    ELSE assign_resistances(IF elements[ekey].kind = "Resistance"
                            THEN ResistanceBonds(S, ekey, get_bonds(ekey), 1) ELSE S,
                            ekey + 1)

\* The <<ekey, bond>> pairs the nested loops of phase 3 run through for `kind`.
RECURSIVE StoreBonds(_, _)
StoreBonds(kind, ekey) ==
    IF ekey > Len(elements) THEN <<>>
    ELSE (IF elements[ekey].kind = kind
          THEN [j \in 1..Len(get_bonds(ekey)) |-> <<ekey, get_bonds(ekey)[j]>>]
          ELSE <<>>) \o StoreBonds(kind, ekey + 1)

IsSet(i) == is_causality_set(TheBond(i))

\* Mutant: the loop does not test is_causality_set.
Mutant_NextUnset_no_test(bs, from) == IF from > Len(bs) THEN 0 ELSE from

\* The first position from `from` on whose bond is not marked, 0 when none.
NextUnset(bs, from) ==
    LET open == {k \in from..Len(bs) : ~IsSet(bs[k])} IN
    IF open = {} THEN 0 ELSE CHOOSE k \in open : \A m \in open : k <= m

---------------------------------------------------------------------------
(* Construction of a DirectedBondgraph from the point where __init__ calls   *)
(* _assign_causalities: the elements are registered, the bonds attached and  *)
(* check_bonds has passed for every element.                                 *)

Range(seq) == {seq[i] : i \in 1..Len(seq)}

\* The bond lists __add_bonds accepts over elements 1..n: no pair twice.
RECURSIVE BondListsOfLen(_, _)
BondListsOfLen(n, k) ==
    IF k = 0 THEN {<<>>}
    ELSE UNION {{Append(bl, p) : p \in ((1..n) \X (1..n)) \ Range(bl)} :
                    bl \in BondListsOfLen(n, k - 1)}

BondLists(n) == UNION {BondListsOfLen(n, k) : k \in 0..MaxBonds}

\* The element lists of length k whose elements pass check_bonds with the
\* bond lists io.
RECURSIVE ElementLists(_, _)
ElementLists(io, k) ==
    IF k = 0 THEN {<<>>}
    ELSE UNION {{Append(els, el) :
                    el \in {v \in ElementVariants : check_bonds(v, io.in[k], io.out[k])}} :
                        els \in ElementLists(io, k - 1)}

Init ==
    \E n \in 0..MaxElements : \E bl \in BondLists(n) :
        LET io == add_bonds(n, bl) IN
        \E els \in ElementLists(io, n) :
            /\ elements = els
            /\ bonds = bl
            /\ in_bonds = io.in
            /\ out_bonds = io.out
            /\ effort_causality_direction = [i \in 1..Len(bl) |-> None]
            /\ flow_causality_direction = [i \in 1..Len(bl) |-> None]
            /\ pc = "phase1"
            /\ ret = ""
            /\ cursor = 0
            /\ phase = 1
            /\ err = NoErr
            /\ warnings = <<>>
            /\ call = NoCall
            /\ args = [elements |-> [i \in 1..n |-> Element_init(i, els[i])], bonds |-> bl]
            /\ loop = NoLoop
            /\ previous = NoOutcome

Now == PassState(effort_causality_direction, flow_causality_direction)

\* The marks S leaves, and either the exception it raised or the step `to`.
Continue(S, to, back, cur, ph) ==
    /\ effort_causality_direction' = S.effort
    /\ flow_causality_direction' = S.flow
    /\ phase' = ph
    /\ IF S.exc # NoExc
       THEN /\ pc' = "raised"
            /\ err' = [exc |-> S.exc, bond |-> S.bond, element |-> S.element, phase |-> ph]
            /\ UNCHANGED <<ret, cursor>>
       ELSE /\ pc' = to
            /\ ret' = back
            /\ cursor' = cur
            /\ err' = err
    /\ UNCHANGED <<elements, bonds, in_bonds, out_bonds, call, args, previous>>

\* The bonds of S not marked yet
UnmarkedIn(S) == {i \in 1..Len(S.effort) : ~is_causality_set(BondIn(S, i))}

\* A `while self.__propagate_causalities(): pass` loop is entered with marks S.
StartLoop(S) == [passes |-> 0, unmarked |-> Cardinality(UnmarkedIn(S))]

\* Phase 1: the forced marks of sources, sensors and controllers (lines 133-164)
AssignForced ==
    /\ pc = "phase1"
    /\ Continue(assign_forced(Now), "propagate", "phase2", 0, 1)
    /\ loop' = StartLoop(assign_forced(Now))
    /\ UNCHANGED warnings

\* Mutant: the loop is left after its first pass.
Mutant_Propagate_single_pass ==
    /\ pc = "propagate"
    /\ Continue(propagate_causalities(Now), ret, ret, cursor, phase)
    /\ loop' = [loop EXCEPT !.passes = @ + 1]
    /\ UNCHANGED warnings

\* One turn of a `while self.__propagate_causalities(): pass` loop
Propagate ==
    /\ pc = "propagate"
    /\ LET S == propagate_causalities(Now) IN
       Continue(S, IF S.change THEN "propagate" ELSE ret, ret, cursor, phase)
    /\ loop' = [loop EXCEPT !.passes = @ + 1]
    /\ UNCHANGED warnings

\* Phase 2: the loop over the Resistances (lines 173-185)
AssignResistances ==
    /\ pc = "phase2"
    /\ Continue(assign_resistances(Now, 1), "propagate", "phase3C", 1, 2)
    /\ loop' = StartLoop(assign_resistances(Now, 1))
    /\ UNCHANGED warnings

\* Phase 3: the loop over the stores of `kind` up to its next unmarked bond,
\* which `op` marks; then the propagation loop inside the for-loop.
AssignStore(kind, op, here, next) ==
    /\ pc = here
    /\ LET sb == StoreBonds(kind, 1)
           k == NextUnset([j \in 1..Len(sb) |-> sb[j][2]], cursor)
       IN  IF k = 0
           THEN /\ Continue(Now, next, ret, 1, 3)
                /\ UNCHANGED loop
           ELSE /\ Continue(Mark(Now, op, sb[k][2], sb[k][1]), "propagate", here, k + 1, 3)
                /\ loop' = StartLoop(Mark(Now, op, sb[k][2], sb[k][1]))
    /\ UNCHANGED warnings

\* Mutant: the Capacitance loop calls the setter of the Inertance loop.
Mutant_AssignCapacitance_effort_towards ==
    AssignStore("Capacitance", "set_effort_causality_direction_towards", "phase3C", "phase3I")

AssignCapacitance ==
    AssignStore("Capacitance", "set_flow_causality_direction_towards", "phase3C", "phase3I")

\* Mutant: the Inertance loop calls the setter of the Capacitance loop.
Mutant_AssignInertance_flow_towards ==
    AssignStore("Inertance", "set_flow_causality_direction_towards", "phase3I", "phase4")

AssignInertance ==
    AssignStore("Inertance", "set_effort_causality_direction_towards", "phase3I", "phase4")

\* Phase 4: the loop over self.get_bonds() up to its next unmarked bond, which
\* is reported and marked towards its end; then the propagation loop.
AssignResidual ==
    /\ pc = "phase4"
    /\ LET bs == graph_get_bonds
           k == NextUnset(bs, cursor)
       IN  IF k = 0
           THEN /\ Continue(Now, "done", ret, cursor, 4)
                /\ UNCHANGED <<warnings, loop>>
           ELSE /\ warnings' = Append(warnings, bs[k])
                /\ Continue(Mark(Now, "set_effort_causality_direction_towards",
                                 bs[k], get_end(bs[k])),
                            "propagate", "phase4", k + 1, 4)
                /\ loop' = StartLoop(Mark(Now, "set_effort_causality_direction_towards",
                                          bs[k], get_end(bs[k])))

Next ==
    \/ AssignForced
    \/ Propagate
    \/ AssignResistances
    \/ AssignCapacitance
    \/ AssignInertance
    \/ AssignResidual

Spec == Init /\ [][Next]_vars

---------------------------------------------------------------------------
(* _assign_causalities on larger graphs of fewer kinds: MaxSourceElements   *)
(* elements that are sources, Resistances and junctions, the bonds listed   *)
(* in ascending order.                                                      *)

SourceVariants ==
    {v \in ElementVariants : v.kind \in {"EffortSource", "FlowSource", "Resistance",
                                         "CommonEffortJunction", "CommonFlowJunction"}}

\* The lists of k different bonds over elements 1..n in ascending order of
\* <<start, end>>.
RECURSIVE AscendingBondLists(_, _)
AscendingBondLists(n, k) ==
    IF k = 0 THEN {<<>>}
    ELSE UNION {{Append(bl, p) :
                    p \in {q \in (1..n) \X (1..n) :
                            \/ bl = <<>>
                            \/ q[1] > bl[Len(bl)][1]
                            \/ q[1] = bl[Len(bl)][1] /\ q[2] > bl[Len(bl)][2]}} :
                    bl \in AscendingBondLists(n, k - 1)}

RECURSIVE SourceElementLists(_, _)
SourceElementLists(io, k) ==
    IF k = 0 THEN {<<>>}
    ELSE UNION {{Append(els, el) :
                    el \in {v \in SourceVariants : check_bonds(v, io.in[k], io.out[k])}} :
                        els \in SourceElementLists(io, k - 1)}

InitSources ==
    \E bl \in UNION {AscendingBondLists(MaxSourceElements, k) : k \in 0..MaxBonds} :
        LET n == MaxSourceElements
            io == add_bonds(n, bl) IN
        \E els \in SourceElementLists(io, n) :
            /\ elements = els
            /\ bonds = bl
            /\ in_bonds = io.in
            /\ out_bonds = io.out
            /\ effort_causality_direction = [i \in 1..Len(bl) |-> None]
            /\ flow_causality_direction = [i \in 1..Len(bl) |-> None]
            /\ pc = "phase1"
            /\ ret = ""
            /\ cursor = 0
            /\ phase = 1
            /\ err = NoErr
            /\ warnings = <<>>
            /\ call = NoCall
            /\ args = [elements |-> [i \in 1..n |-> Element_init(i, els[i])], bonds |-> bl]
            /\ loop = NoLoop
            /\ previous = NoOutcome

SpecSources == InitSources /\ [][Next]_vars

---------------------------------------------------------------------------
(* DirectedBondgraph.__init__ from its first line: the elements are         *)
(* registered, the bonds created and attached, check_bonds is called for    *)
(* every element, then _assign_causalities runs.  The caller names its i-th *)
(* element i, or gives it the identifier of an earlier element; a bond may  *)
(* name one identifier more than there are elements.                        *)

ExcAlreadyIn == "already in elements of bond graph"
ExcDuplicateBonds == "Duplicate bonds defined."
ExcNotIn == "not in elements of bond graph"
ExcArity == "Wrong number of in- and outgoing power bonds for"

Min(S) == CHOOSE x \in S : \A y \in S : x <= y

ArgIdentifiers(n) ==
    {ids \in [1..n -> 1..n] :
        /\ \A i \in 1..n : ids[i] <= i
        /\ Cardinality({i \in 1..n : ids[i] < i}) <= 1}

ArgElementLists(n) ==
    {[i \in 1..n |-> Element_init(ids[i], objs[i])] :
        ids \in ArgIdentifiers(n), objs \in [1..n -> ElementVariants]}

RECURSIVE ArgBondListsOfLen(_, _)
ArgBondListsOfLen(n, k) ==
    IF k = 0 THEN {<<>>}
    ELSE {Append(bl, p) : bl \in ArgBondListsOfLen(n, k - 1),
                          p \in (1..(n + 1)) \X (1..(n + 1))}

ArgBondLists(n, maxlen) == UNION {ArgBondListsOfLen(n, k) : k \in 0..maxlen}

\* Before the first line of __init__: nothing registered, no Bond object made.
Unconstructed ==
    /\ elements = <<>>
    /\ bonds = <<>>
    /\ in_bonds = <<>>
    /\ out_bonds = <<>>
    /\ effort_causality_direction = <<>>
    /\ flow_causality_direction = <<>>
    /\ pc = "add_elements"
    /\ ret = ""
    /\ cursor = 0
    /\ phase = 0
    /\ err = NoErr
    /\ warnings = <<>>
    /\ call = NoCall
    /\ loop = NoLoop
    /\ previous = NoOutcome

InitConstruct ==
    /\ Unconstructed
    /\ \E n \in 0..MaxArgElements :
            \E ael \in ArgElementLists(n), abl \in ArgBondLists(n, MaxBonds) :
                args = [elements |-> ael, bonds |-> abl]

\* The positions of the elements whose identifier an earlier element has
Reused(ael) ==
    {i \in 1..Len(ael) : \E j \in 1..(i - 1) : ael[j].identifier = ael[i].identifier}

\* for e in elements: self.__add_element(e)
AddElements ==
    /\ pc = "add_elements"
    /\ LET ael == args.elements
           n == IF Reused(ael) = {} THEN Len(ael) ELSE Min(Reused(ael)) - 1
       IN  /\ elements' = [i \in 1..n |-> ael[i].obj]
           /\ in_bonds' = [i \in 1..n |-> ael[i].in_bonds]
           /\ out_bonds' = [i \in 1..n |-> ael[i].out_bonds]
           /\ IF Reused(ael) = {}
              THEN pc' = "add_bonds" /\ err' = err
              ELSE /\ pc' = "raised"
                   /\ err' = [NoErr EXCEPT !.exc = ExcAlreadyIn,
                                           !.element = ael[n + 1].identifier]
    /\ UNCHANGED <<bonds, effort_causality_direction, flow_causality_direction,
                   ret, cursor, phase, warnings, call, args, loop, previous>>

\* Mutant: the duplicate test made after the loop that creates the bonds.
Mutant_add_bonds_outcome_late_test(n, abl) ==
    LET unknown == {i \in 1..Len(abl) : abl[i][1] \notin 1..n \/ abl[i][2] \notin 1..n}
        m == IF unknown = {} THEN Len(abl) ELSE Min(unknown) - 1
    IN  IF unknown # {}
        THEN [made |-> SubSeq(abl, 1, m), exc |-> ExcNotIn,
              element |-> IF abl[m + 1][1] \notin 1..n THEN abl[m + 1][1] ELSE abl[m + 1][2]]
        ELSE IF Len(abl) # Cardinality(Range(abl))
        THEN [made |-> abl, exc |-> ExcDuplicateBonds, element |-> 0]
        ELSE [made |-> abl, exc |-> NoExc, element |-> 0]

\* __add_bonds over the registered elements 1..n: the (start, end) pairs it
\* makes Bond objects of and attaches, and the exception it raises.
add_bonds_outcome(n, abl) ==
    LET unknown == {i \in 1..Len(abl) : abl[i][1] \notin 1..n \/ abl[i][2] \notin 1..n}
        m == IF unknown = {} THEN Len(abl) ELSE Min(unknown) - 1
    IN  IF Len(abl) # Cardinality(Range(abl))
        THEN [made |-> <<>>, exc |-> ExcDuplicateBonds, element |-> 0]
        ELSE IF unknown # {}
        THEN [made |-> SubSeq(abl, 1, m), exc |-> ExcNotIn,
              element |-> IF abl[m + 1][1] \notin 1..n THEN abl[m + 1][1] ELSE abl[m + 1][2]]
        ELSE [made |-> abl, exc |-> NoExc, element |-> 0]

\* self.__add_bonds(bonds)
AddBonds ==
    /\ pc = "add_bonds"
    /\ LET n == Len(elements)
           r == add_bonds_outcome(n, args.bonds)
           io == add_bonds(n, r.made)
       IN  /\ bonds' = r.made
           /\ in_bonds' = [e \in 1..n |-> in_bonds[e] \o io.in[e]]
           /\ out_bonds' = [e \in 1..n |-> out_bonds[e] \o io.out[e]]
           /\ effort_causality_direction' = [i \in 1..Len(r.made) |-> None]
           /\ flow_causality_direction' = [i \in 1..Len(r.made) |-> None]
           /\ IF r.exc = NoExc
              THEN pc' = "check_bonds" /\ err' = err
              ELSE /\ pc' = "raised"
                   /\ err' = [NoErr EXCEPT !.exc = r.exc, !.element = r.element]
    /\ UNCHANGED <<elements, ret, cursor, phase, warnings, call, args, loop, previous>>

\* Mutant: _assign_causalities called without the loop over check_bonds.
Mutant_CheckBonds_no_check ==
    /\ pc = "check_bonds"
    /\ pc' = "phase1" /\ phase' = 1 /\ err' = err
    /\ UNCHANGED <<elements, bonds, in_bonds, out_bonds, effort_causality_direction,
                   flow_causality_direction, ret, cursor, warnings, call, args, loop,
                   previous>>

\* for ekey in self.__elements: self.__elements[ekey].check_bonds()
CheckBonds ==
    /\ pc = "check_bonds"
    /\ LET bad == {e \in 1..Len(elements) :
                        ~check_bonds(elements[e], in_bonds[e], out_bonds[e])}
       IN  IF bad = {}
           THEN pc' = "phase1" /\ phase' = 1 /\ err' = err
           ELSE /\ pc' = "raised"
                /\ phase' = phase
                /\ err' = [NoErr EXCEPT !.exc = ExcArity, !.element = Min(bad)]
    /\ UNCHANGED <<elements, bonds, in_bonds, out_bonds, effort_causality_direction,
                   flow_causality_direction, ret, cursor, warnings, call, args, loop,
                   previous>>

NextConstruct ==
    \/ AddElements
    \/ AddBonds
    \/ CheckBonds
    \/ Next

SpecConstruct == InitConstruct /\ [][NextConstruct]_vars

---------------------------------------------------------------------------
(* A caller that constructs a second graph from new element objects made    *)
(* like the first ones and from the same bond list.                         *)

\* What a construction ends with: the exception, or the marks of the bonds in
\* the order of DirectedBondgraph.get_bonds.
OutcomeNow ==
    [pc |-> pc, err |-> err,
     marks |-> [k \in 1..Len(graph_get_bonds) |->
                    LET i == graph_get_bonds[k] IN
                    <<bonds[i], effort_causality_direction[i], flow_causality_direction[i]>>]]

ConstructAgain ==
    /\ pc \in {"done", "raised"}
    /\ previous = NoOutcome
    /\ previous' = OutcomeNow
    /\ args' = [elements |-> [i \in 1..Len(args.elements) |->
                                Element_init(args.elements[i].identifier,
                                             args.elements[i].obj)],
                bonds |-> args.bonds]
    /\ elements' = <<>>
    /\ bonds' = <<>>
    /\ in_bonds' = <<>>
    /\ out_bonds' = <<>>
    /\ effort_causality_direction' = <<>>
    /\ flow_causality_direction' = <<>>
    /\ pc' = "add_elements"
    /\ ret' = ""
    /\ cursor' = 0
    /\ phase' = 0
    /\ err' = NoErr
    /\ warnings' = <<>>
    /\ loop' = NoLoop
    /\ UNCHANGED call

NextTwice ==
    \/ NextConstruct
    \/ ConstructAgain

\* The first construction is given the elements and bonds of one of the graphs
\* of Init, or arguments as in InitConstruct with one bond less.
InitTwice ==
    /\ Unconstructed
    /\ \/ \E n \in 0..MaxArgElements :
            \E ael \in ArgElementLists(n), abl \in ArgBondLists(n, MaxBonds - 1) :
                args = [elements |-> ael, bonds |-> abl]
       \/ \E n \in 0..MaxElements : \E bl \in BondLists(n) :
            \E els \in ElementLists(add_bonds(n, bl), n) :
                args = [elements |-> [i \in 1..n |-> Element_init(i, els[i])], bonds |-> bl]

SpecTwice == InitTwice /\ [][NextTwice]_vars

----------------------------------------------------------------------------
(* The phases run a second time over the same graph with the two loops of   *)
(* phase 3 exchanged: causalbg.py lines 203-210 before lines 194-201        *)

StoreVariants ==
    {v \in ElementVariants : v.kind \in {"Capacitance", "Inertance", "Transformer", "Gyrator",
                                         "CommonEffortJunction", "CommonFlowJunction"}}

RECURSIVE StoreElementLists(_, _)
StoreElementLists(io, k) ==
    IF k = 0 THEN {<<>>}
    ELSE UNION {{Append(els, el) :
                    el \in {v \in StoreVariants : check_bonds(v, io.in[k], io.out[k])}} :
                        els \in StoreElementLists(io, k - 1)}

\* The graphs of MaxStoreElements elements with a Capacitance and an Inertance.
InitStores ==
    \E bl \in UNION {AscendingBondLists(MaxStoreElements, k) : k \in 0..MaxBonds} :
        LET n == MaxStoreElements
            io == add_bonds(n, bl) IN
        \E els \in StoreElementLists(io, n) :
            /\ \E i \in 1..n : els[i].kind = "Capacitance"
            /\ \E i \in 1..n : els[i].kind = "Inertance"
            /\ elements = els
            /\ bonds = bl
            /\ in_bonds = io.in
            /\ out_bonds = io.out
            /\ effort_causality_direction = [i \in 1..Len(bl) |-> None]
            /\ flow_causality_direction = [i \in 1..Len(bl) |-> None]
            /\ pc = "phase1"
            /\ ret = ""
            /\ cursor = 0
            /\ phase = 1
            /\ err = NoErr
            /\ warnings = <<>>
            /\ call = NoCall
            /\ args = [elements |-> [i \in 1..n |-> Element_init(i, els[i])], bonds |-> bl]
            /\ loop = NoLoop
            /\ previous = NoOutcome

\* The first run has ended: its outcome is kept, the marks are taken off the
\* bonds and the phases start again.
AssignAgain ==
    /\ pc \in {"done", "raised"}
    /\ previous = NoOutcome
    /\ previous' = OutcomeNow
    /\ effort_causality_direction' = [i \in 1..Len(bonds) |-> None]
    /\ flow_causality_direction' = [i \in 1..Len(bonds) |-> None]
    /\ pc' = "phase1"
    /\ ret' = ""
    /\ cursor' = 0
    /\ phase' = 1
    /\ err' = NoErr
    /\ warnings' = <<>>
    /\ loop' = NoLoop
    /\ UNCHANGED <<elements, bonds, in_bonds, out_bonds, call, args>>

\* Mutant: the exchanged Inertance loop calls the setter of the Capacitance loop.
Mutant_AssignInertanceFirst_flow_towards ==
    /\ previous # NoOutcome
    /\ AssignStore("Inertance", "set_flow_causality_direction_towards", "phase3C", "phase3I")

\* The second run: the loop of lines 203-210 in the place of the loop of
\* lines 194-201.
AssignInertanceFirst ==
    /\ previous # NoOutcome
    /\ AssignStore("Inertance", "set_effort_causality_direction_towards", "phase3C", "phase3I")

\* The second run: the loop of lines 194-201 in the place of the loop of
\* lines 203-210.
AssignCapacitanceSecond ==
    /\ previous # NoOutcome
    /\ AssignStore("Capacitance", "set_flow_causality_direction_towards", "phase3I", "phase4")

\* The first run takes the loops of phase 3 in the order of the code.
AssignCapacitanceFirst ==
    /\ previous = NoOutcome
    /\ AssignCapacitance

AssignInertanceSecond ==
    /\ previous = NoOutcome
    /\ AssignInertance

NextExchanged ==
    \/ AssignForced
    \/ Propagate
    \/ AssignResistances
    \/ AssignCapacitanceFirst
    \/ AssignInertanceSecond
    \/ AssignResidual
    \/ AssignAgain
    \/ AssignInertanceFirst
    \/ AssignCapacitanceSecond

SpecExchanged == InitStores /\ [][NextExchanged]_vars

----------------------------------------------------------------------------
(* The equations of a two-port asked for after construction:                *)
(* Element.get_equations, src/src/bondgraphs/element.py                     *)

ExcNoEquation == "Constitutive equation should not be None for"
ExcNotFitting == "Causality for transformer not fitting"

\* Element.__get_twoport_equations of the two-port ekey; eq_given tells whether
\* the element was made with a constitutive equation.  The value TRUE stands
\* for the list of equations.
get_twoport_equations(ekey, eq_given) ==
    LET a_effort_in == is_effort_input(ekey, TheBond(get_bonds(ekey)[1]))
        b_effort_in == is_effort_input(ekey, TheBond(get_bonds(ekey)[2]))
    IN  IF ~eq_given THEN [value |-> None, exc |-> ExcNoEquation]
        ELSE IF a_effort_in.exc # NoExc THEN a_effort_in
        ELSE IF b_effort_in.exc # NoExc THEN b_effort_in
        ELSE IF a_effort_in.value /\ b_effort_in.value
             THEN [value |-> None, exc |-> ExcNotFitting]
        ELSE IF a_effort_in.value THEN [value |-> TRUE, exc |-> NoExc]
        ELSE IF b_effort_in.value THEN [value |-> TRUE, exc |-> NoExc]
        ELSE [value |-> None, exc |-> ExcNotFitting]

\* Element.get_equations called for a two-port of the constructed graph.
GetEquations ==
    /\ pc = "done"
    /\ \E ekey \in 1..Len(elements), eq_given \in BOOLEAN :
        /\ is_twoport(elements[ekey])
        /\ LET r == get_twoport_equations(ekey, eq_given) IN
            /\ call' = [op |-> "get_equations", el_name |-> ekey, bond |-> 0,
                        result |-> r.value]
            /\ err' = [NoErr EXCEPT !.exc = r.exc, !.element = IF r.exc = NoExc THEN 0 ELSE ekey]
    /\ pc' = "equations"
    /\ UNCHANGED <<elements, bonds, in_bonds, out_bonds, effort_causality_direction,
                   flow_causality_direction, ret, cursor, phase, warnings,
                   args, loop, previous>>

NextEquations ==
    \/ Next
    \/ GetEquations

SpecEquations == Init /\ [][NextEquations]_vars



---------------------------------------------------------------------------
(* Properties of the Bond API (checked under SpecBond) *)

BondIds == 1..Len(bonds)

OtherEnd(b, x) == IF x = b.start THEN b.end ELSE b.start

\* The endpoint a call asks to be the effort-input endpoint of b (0: el_name
\* is no endpoint of b and the request names none).
RequestedEffortInput(op, b, el_name) ==
    IF el_name \notin {b.start, b.end} THEN 0
    ELSE IF op \in {"set_effort_causality_direction_towards",
                    "set_flow_causality_direction_from"}
         THEN el_name
         ELSE OtherEnd(b, el_name)

\* C6: a call that asks for the mark the bond already has raises nothing.
\* (The state after a call that raised keeps the mark the bond had before it.)
C6_IdempotentReassertion ==
    \A i \in BondIds :
        LET b == TheBond(i) IN
        (/\ call.op \in MarkOps
         /\ call.bond = i
         /\ b.effort # None
         /\ RequestedEffortInput(call.op, b, call.el_name) = b.effort[2])
            => err.exc = NoExc

\* C7: a marked bond keeps both direction fields through every later call, and
\* a call asking for the other endpoint as effort-input raises a causal conflict.
C7_WriteOnce ==
    [][\A i \in BondIds :
          effort_causality_direction[i] # None =>
              /\ effort_causality_direction'[i] = effort_causality_direction[i]
              /\ flow_causality_direction'[i] = flow_causality_direction[i]
              /\ (/\ call'.op \in MarkOps
                  /\ call'.bond = i
                  /\ LET want == RequestedEffortInput(call'.op, TheBond(i), call'.el_name)
                     IN  want # 0 /\ want # effort_causality_direction[i][2])
                     => IsCausalConflict(err'.exc)]_vars

\* A marked bond was asked to take its other endpoint as effort-input and the
\* call raised a causal conflict.
C7_Witness ==
    /\ pc = "bond"
    /\ effort_causality_direction[1] = <<bonds[1][1], bonds[1][2]>>
    /\ bonds[1][1] # bonds[1][2]
    /\ call.op = "set_effort_causality_direction_towards"
    /\ call.el_name = bonds[1][1]
    /\ IsCausalConflict(err.exc)

\* C8: the two direction fields of a bond are both None, or both set, the flow
\* direction being the effort direction reversed, from one end of the bond to
\* the other.
C8_Antiparallel ==
    \A i \in BondIds :
        LET b == TheBond(i) IN
        \/ b.effort = None /\ b.flow = None
        \/ /\ b.effort \in {<<b.start, b.end>>, <<b.end, b.start>>}
           /\ b.flow = <<b.effort[2], b.effort[1]>>

\* A bond between two different elements marked by a flow-mark call.
C8_Witness ==
    /\ pc = "bond"
    /\ bonds[1][1] # bonds[1][2]
    /\ call.op = "set_flow_causality_direction_from"
    /\ err.exc = NoExc
    /\ flow_causality_direction[1] = <<bonds[1][1], bonds[1][2]>>
    /\ effort_causality_direction[1] = <<bonds[1][2], bonds[1][1]>>

\* What a call leaves: the two fields and the kind of exception raised.
Outcome(r) ==
    <<r.effort, r.flow,
      IF r.exc = NoExc THEN "none"
      ELSE IF IsCausalConflict(r.exc) THEN "CausalConflict" ELSE r.exc>>

\* C9: in every state of a bond and for each endpoint x: marking flow-input at x
\* (flow towards x) ends as marking effort-input at the other endpoint does, and
\* makes x the flow-input endpoint when it succeeds; marking flow-input at the
\* other endpoint of x (flow from x) ends as marking effort-input at x does.
C9_FlowMarksSwapRoles ==
    \A i \in BondIds :
        LET b == TheBond(i) IN
        \A x \in {b.start, b.end} :
            LET ft == set_flow_causality_direction_towards(b, x)
                ff == set_flow_causality_direction_from(b, x)
            IN  /\ Outcome(ft) = Outcome(set_effort_causality_direction_towards(b, OtherEnd(b, x)))
                /\ ft.exc = NoExc => ft.flow[2] = x /\ ft.effort[2] = OtherEnd(b, x)
                /\ Outcome(ff) = Outcome(set_effort_causality_direction_towards(b, x))
                /\ ff.exc = NoExc => ff.flow[2] = OtherEnd(b, x) /\ ff.effort[2] = x

\* A flow-mark call made x the flow-input endpoint of an unmarked bond between
\* two different elements (and the next one will meet a marked bond).
C9_Witness ==
    /\ pc = "bond"
    /\ bonds[1][1] # bonds[1][2]
    /\ call.op = "set_flow_causality_direction_towards"
    /\ call.el_name = bonds[1][2]
    /\ err.exc = NoExc
    /\ flow_causality_direction[1] = <<bonds[1][1], bonds[1][2]>>

\* C16: a query for the effort-input or the flow-input endpoint of a bond that
\* has no mark raises an exception.  (A query changes no field: the bond the
\* last query met unmarked is unmarked still.)
C16_UnsetQueryFails ==
    (/\ call.op \in QueryOps
     /\ effort_causality_direction[call.bond] = None
     /\ flow_causality_direction[call.bond] = None)
        => err.exc # NoExc

---------------------------------------------------------------------------
(* Properties of a construction (checked under Spec) *)

ElementIds == 1..Len(elements)

\* _assign_causalities has returned: the graph is constructed.
Done == pc = "done"

Incident(ekey) == Range(get_bonds(ekey))

KindOf(ekey) == elements[ekey].kind

\* C1: once construction completes, every bond has both directions set.
C1_Totality == Done => \A i \in BondIds : IsSet(i)

\* A construction completed in which the phase 4 fallback reported and marked
\* one bond of a graph with two bonds or more.
C1_Witness ==
    /\ Done
    /\ Len(warnings) = 1
    /\ Len(bonds) >= 2

EffortInputsAt(ekey) ==
    {i \in Incident(ekey) : effort_causality_direction[i] # None
                                /\ effort_causality_direction[i][2] = ekey}

FlowInputsAt(ekey) ==
    {i \in Incident(ekey) : flow_causality_direction[i] # None
                                /\ flow_causality_direction[i][2] = ekey}

\* C2: after construction no CommonEffortJunction is the effort-input endpoint
\* of two or more of its bonds.
C2_EffortJunctionExclusive ==
    Done => \A ekey \in ElementIds :
                KindOf(ekey) = "CommonEffortJunction" =>
                    Cardinality(EffortInputsAt(ekey)) <= 1

\* A constructed graph with a 0-junction that is the effort-input endpoint of
\* one bond and the effort-output endpoint of another.
C2_Witness ==
    /\ Done
    /\ \E ekey \in ElementIds :
        /\ KindOf(ekey) = "CommonEffortJunction"
        /\ Cardinality(EffortInputsAt(ekey)) = 1
        /\ \E j \in Incident(ekey) : effort_causality_direction[j][2] # ekey

\* C3: after construction no CommonFlowJunction is the flow-input endpoint of
\* two or more of its bonds, and beside a bond that has it as flow-input every
\* other bond of the junction has it as flow-output.
C3_FlowJunctionExclusive ==
    Done => \A ekey \in ElementIds :
                KindOf(ekey) = "CommonFlowJunction" =>
                    /\ Cardinality(FlowInputsAt(ekey)) <= 1
                    /\ \A i \in FlowInputsAt(ekey) : \A j \in Incident(ekey) \ {i} :
                           flow_causality_direction[j][1] = ekey

\* A constructed graph with a 1-junction with one flow-input bond and another,
\* flow-output, bond.
C3_Witness ==
    /\ Done
    /\ \E ekey \in ElementIds :
        /\ KindOf(ekey) = "CommonFlowJunction"
        /\ Cardinality(FlowInputsAt(ekey)) = 1
        /\ \E j \in Incident(ekey) : flow_causality_direction[j][2] # ekey

\* What the forced assignments and the propagation rules require of bond i,
\* given the marks of the other bonds: <<side, ekey>> stands for "entry `side`
\* of the effort direction of i is ekey" (side 2: ekey is the effort-input
\* endpoint of i, side 1: the effort-output endpoint).
Siblings(ekey, i) == Incident(ekey) \ {i}

HasInputSibling(ekey, i) ==
    \E j \in Siblings(ekey, i) : effort_causality_direction[j] # None
                                    /\ effort_causality_direction[j][2] = ekey

HasOutputSibling(ekey, i) ==
    \E j \in Siblings(ekey, i) : effort_causality_direction[j] # None
                                    /\ effort_causality_direction[j][2] # ekey
                                    /\ effort_causality_direction[j][1] = ekey

Requirements(i) ==
    UNION {
        (IF KindOf(ekey) \in {"EffortSource", "FlowSensor", "EffortController"}
         THEN {<<1, ekey>>} ELSE {})
        \cup
        (IF KindOf(ekey) \in {"FlowSource", "EffortSensor", "FlowController"}
         THEN {<<2, ekey>>} ELSE {})
        \cup
        (IF KindOf(ekey) = "Resistance" /\ ~is_constitutive_equation_invertible(elements[ekey])
         THEN (IF elements[ekey].solvable_effort THEN {<<1, ekey>>} ELSE {<<2, ekey>>})
         ELSE {})
        \cup
        (IF KindOf(ekey) = "CommonEffortJunction" /\ HasInputSibling(ekey, i)
         THEN {<<1, ekey>>} ELSE {})
        \cup
        (IF KindOf(ekey) = "CommonFlowJunction"
              /\ \E j \in Siblings(ekey, i) : j \in FlowInputsAt(ekey)
         THEN {<<2, ekey>>} ELSE {})
        \cup
        (IF KindOf(ekey) = "Transformer" /\ HasInputSibling(ekey, i)
         THEN {<<1, ekey>>} ELSE {})
        \cup
        (IF KindOf(ekey) = "Transformer" /\ HasOutputSibling(ekey, i)
         THEN {<<2, ekey>>} ELSE {})
        \cup
        (IF KindOf(ekey) = "Gyrator" /\ HasInputSibling(ekey, i)
         THEN {<<2, ekey>>} ELSE {})
        \cup
        (IF KindOf(ekey) = "Gyrator" /\ HasOutputSibling(ekey, i)
         THEN {<<1, ekey>>} ELSE {})
        : ekey \in {bonds[i][1], bonds[i][2]} }

\* C4: a construction completes only with every requirement of the forced
\* assignments and of the rules met by the mark of the bond it is about (so no
\* bond with two different required effort-input endpoints); a causal conflict
\* names a bond that is marked and keeps its mark, and the conflict a
\* propagation pass raises names a bond whose mark a rule contradicts.
C4_ConflictDetection ==
    /\ Done => \A i \in BondIds : \A r \in Requirements(i) :
                   effort_causality_direction[i][r[1]] = r[2]
    /\ (pc = "raised" /\ IsCausalConflict(err.exc)) =>
            err.bond \in BondIds /\ IsSet(err.bond)
    /\ (pc = "raised" /\ err.exc = ExcPropagation) =>
            \E r \in Requirements(err.bond) :
                /\ r[2] = err.element
                /\ effort_causality_direction[err.bond][r[1]] # r[2]

\* Propagation raised the conflict over a bond of a graph in which every
\* element has two bonds or more (a cycle).
C4_Witness ==
    /\ pc = "raised"
    /\ err.exc = ExcPropagation
    /\ \A ekey \in ElementIds : Len(get_bonds(ekey)) >= 2
    /\ bonds[err.bond][1] # bonds[err.bond][2]

\* C5 as claimed: no exception is raised in phase 4.
C5_FallbackNeverAborts == ~(pc = "raised" /\ err.phase = 4)

\* C5 amended: in phase 4 the marking of a residual bond raises nothing; the
\* only exception raised there is the conflict a propagation pass detects.
C5_FallbackAbortsOnlyInPropagation ==
    (pc = "raised" /\ err.phase = 4) => err.exc = ExcPropagation

\* Phase 4 marked a residual bond and the propagation that followed raised.
C5_Witness ==
    /\ pc = "raised"
    /\ err.phase = 4
    /\ err.exc = ExcPropagation
    /\ warnings # <<>>

\* The position of bond i in the list DirectedBondgraph.get_bonds returns
PositionOf(i) == CHOOSE k \in 1..Len(graph_get_bonds) : graph_get_bonds[k] = i

\* The bonds a step marks
NewlyMarked == {i \in BondIds : ~IsSet(i) /\ IsSet(i)'}

\* Whenever the phase 4 loop is about to examine a bond, propagation is at a
\* fixed point; the warnings name different bonds, in get_bonds order, and each
\* of them has its end element as effort-input endpoint.
C12_FallbackState ==
    /\ pc = "phase4" =>
            /\ propagate_causalities(Now).exc = NoExc
            /\ ~propagate_causalities(Now).change
    /\ \A a, b \in 1..Len(warnings) :
            a < b => PositionOf(warnings[a]) < PositionOf(warnings[b])
    /\ \A a \in 1..Len(warnings) :
            LET i == warnings[a] IN
            /\ effort_causality_direction[i] = <<bonds[i][1], bonds[i][2]>>
            /\ flow_causality_direction[i] = <<bonds[i][2], bonds[i][1]>>

\* A step that adds a warning is a step of the phase 4 loop: it warns about one
\* bond, the first unmarked one in get_bonds order, marks that bond and no
\* other, and hands over to propagation.  The phase 4 loop passes no unmarked
\* bond without warning, and every other mark made in phase 4 is made by a
\* propagation pass, without a warning.
C12_FallbackStep ==
    /\ warnings' # warnings =>
            /\ pc = "phase4"
            /\ pc' = "propagate"
            /\ \E i \in BondIds :
                    /\ warnings' = Append(warnings, i)
                    /\ ~IsSet(i)
                    /\ NewlyMarked = {i}
                    /\ \A j \in BondIds : PositionOf(j) < PositionOf(i) => IsSet(j)
    /\ (pc = "phase4" /\ \E i \in BondIds : ~IsSet(i)) =>
            Len(warnings') = Len(warnings) + 1
    /\ (phase' = 4 /\ warnings' = warnings /\ NewlyMarked # {}) =>
            pc = "propagate" /\ phase = 4

\* C12: phase 4 visits the bonds in get_bonds order; each bond still unmarked
\* when reached gets one warning and is marked with its end element as
\* effort-input endpoint, then propagation runs to a fixed point before the
\* next bond is examined; bonds marked by that propagation get no warning, so
\* there are as many warnings as bonds the fallback marks directly.
C12_Fallback == [](C12_FallbackState) /\ [][C12_FallbackStep]_vars

\* The fallback warned about two bonds of a graph and construction completed.
C12_Witness ==
    /\ Done
    /\ Len(warnings) = 2

\* Examples.rc: C, R (1 * f - e, solvable for e and for f) and the junction "0",
\* here elements 1, 2, 3, with the bonds ("0","C") and ("0","R").
IsRC ==
    /\ elements = <<ElementObj("Capacitance", TRUE, TRUE),
                    ElementObj("Resistance", TRUE, TRUE),
                    ElementObj("CommonEffortJunction", TRUE, TRUE)>>
    /\ bonds = << <<3, 1>>, <<3, 2>> >>

\* C13: the construction of the RC example raises nothing and emits no
\* warning; once it has completed, bond (J0,C) has J0 as effort-input endpoint
\* (C gives effort and takes flow: integral causality) and bond (J0,R) has R
\* as effort-input endpoint.
C13_RC ==
    IsRC => /\ pc # "raised"
            /\ warnings = <<>>
            /\ Done => /\ effort_causality_direction[1] = <<1, 3>>
                       /\ flow_causality_direction[1] = <<3, 1>>
                       /\ effort_causality_direction[2] = <<3, 2>>
                       /\ flow_causality_direction[2] = <<2, 3>>

\* The RC example constructed, its second bond marked by the junction rule.
C13_Witness ==
    /\ IsRC
    /\ Done
    /\ effort_causality_direction[2] = <<3, 2>>

Unmarked == {i \in BondIds : ~IsSet(i)}

Terminated == pc \in {"done", "raised"}

\* The step of _assign_causalities a state belongs to: a propagation loop
\* belongs to the step it returns to.
StepAt == IF pc = "propagate" THEN ret ELSE pc

\* How far construction is from its end, as a tuple compared from the left:
\* the steps still to come, the positions the running for-loop of phase 3 or
\* 4 has still to visit, whether a propagation loop is running, the number
\* of unmarked bonds.
Measure ==
    << CASE Terminated -> 0
         [] StepAt = "phase4" -> 1
         [] StepAt = "phase3I" -> 2
         [] StepAt = "phase3C" -> 3
         [] StepAt = "phase2" -> 4
         [] StepAt = "phase1" -> 5,
       CASE ~Terminated /\ StepAt = "phase4" -> Len(graph_get_bonds) + 1 - cursor
         [] ~Terminated /\ StepAt = "phase3I" -> Len(StoreBonds("Inertance", 1)) + 1 - cursor
         [] ~Terminated /\ StepAt = "phase3C" -> Len(StoreBonds("Capacitance", 1)) + 1 - cursor
         [] OTHER -> 0,
       IF pc = "propagate" THEN 1 ELSE 0,
       Cardinality(Unmarked) >>

LexLess(a, b) ==
    \E k \in 1..Len(a) : a[k] < b[k] /\ \A j \in 1..(k - 1) : a[j] = b[j]

\* While a propagation loop runs every pass made so far has marked a bond, and
\* a loop makes at most one pass more than there were unmarked bonds when it
\* started; the measure is a tuple of natural numbers; construction is at one
\* of its steps until it has ended.
C17_TerminationState ==
    /\ pc = "propagate" => Cardinality(Unmarked) + loop.passes <= loop.unmarked
    /\ loop.passes <= loop.unmarked + 1
    /\ \A k \in 1..Len(Measure) : Measure[k] \in Nat
    /\ ~Terminated =>
            pc \in {"phase1", "propagate", "phase2", "phase3C", "phase3I", "phase4"}

\* A pass that reports a change (the loop goes on) has marked a bond that was
\* unmarked; no step takes a mark away; every step brings the measure down.
C17_TerminationStep ==
    /\ (pc = "propagate" /\ pc' = "propagate") => NewlyMarked # {}
    /\ \A i \in BondIds : IsSet(i) => IsSet(i)'
    /\ LexLess(Measure', Measure)

\* C17: every propagation loop ends, after at most as many passes as there
\* were unmarked bonds at its start plus one, because each pass that reports a
\* change marks an unmarked bond; and the whole assignment ends, because every
\* step of it brings a measure over the natural numbers down.
C17_Termination == [](C17_TerminationState) /\ [][C17_TerminationStep]_vars

\* A propagation loop that made three passes, the first two reporting a change.
C17_Witness ==
    /\ loop.passes = 3
    /\ loop.unmarked >= 2
    /\ pc # "raised"

Resistances == {ekey \in ElementIds : KindOf(ekey) = "Resistance"}

\* The Resistances the loop of phase 2 calls a setter for, by the one variable
\* their constitutive equation can be solved for.
EffortOnly == {r \in Resistances : /\ elements[r].solvable_effort
                                   /\ ~elements[r].solvable_flow}

FlowOnly == {r \in Resistances : /\ ~elements[r].solvable_effort
                                 /\ elements[r].solvable_flow}

\* The step that runs the for-loop of phase 2, and its running to its end.
Phase2Loop == pc = "phase2"

Phase2LoopReturns == Phase2Loop /\ pc' # "raised"

\* C18: the for-loop of phase 2 raises nothing on behalf of a Resistance whose
\* bond was marked before phase 2: the bond a setter called by the loop
\* objects to, and the bond of the Resistance the loop finds not solvable,
\* were unmarked when the loop began.
C18_MarkedResistanceUntouched ==
    [][(Phase2Loop /\ pc' = "raised") =>
            /\ err'.bond # 0 => ~IsSet(err'.bond)
            /\ err'.element # 0 => \E i \in Incident(err'.element) : ~IsSet(i)]_vars

\* C19 as stated: the loop of phase 2 makes a Resistance solvable for effort
\* only the effort-input endpoint of its bond, a Resistance solvable for flow
\* only the flow-input endpoint, and leaves the bond of an invertible
\* Resistance unmarked (unless its other end is a Resistance it marks it for).
C19_SolvableIsInput ==
    [][Phase2LoopReturns =>
            \A r \in Resistances : \A i \in Incident(r) :
                ~IsSet(i) =>
                    /\ r \in EffortOnly =>
                            is_effort_input(r, TheBond(i))' = [value |-> TRUE, exc |-> NoExc]
                    /\ r \in FlowOnly =>
                            is_flow_input(r, TheBond(i))' = [value |-> TRUE, exc |-> NoExc]
                    /\ is_constitutive_equation_invertible(elements[r]) =>
                            (IsSet(i)' =>
                                OtherEnd(TheBond(i), r) \in EffortOnly \cup FlowOnly)]_vars

\* The mark the loop of phase 2 makes for Resistance r on bond i.
Phase2Mark(r, i) ==
    IF r \in EffortOnly THEN <<r, OtherEnd(TheBond(i), r)>>
    ELSE <<OtherEnd(TheBond(i), r), r>>

\* C19, amended: the loop of phase 2 makes the variable the equation can be
\* solved for the output of the Resistance.  Every bond the loop marks is the
\* bond of a Resistance solvable for exactly one variable and is marked with
\* that Resistance as the flow-input (effort-output) endpoint when it is
\* solvable for effort only, as the effort-input endpoint when solvable for
\* flow only, so the loop marks no bond on behalf of an invertible Resistance;
\* when the loop runs to its end every Resistance solvable for exactly one
\* variable whose bond was unmarked has that mark.
C19_SolvableIsOutputStep ==
    /\ Phase2Loop =>
            \A i \in NewlyMarked :
                \E r \in EffortOnly \cup FlowOnly :
                    /\ i \in Incident(r)
                    /\ effort_causality_direction'[i] = Phase2Mark(r, i)
                    /\ flow_causality_direction'[i] = <<Phase2Mark(r, i)[2], Phase2Mark(r, i)[1]>>
    /\ Phase2LoopReturns =>
            \A r \in EffortOnly \cup FlowOnly : \A i \in Incident(r) :
                ~IsSet(i) =>
                    /\ effort_causality_direction'[i] = Phase2Mark(r, i)
                    /\ is_flow_input(r, TheBond(i))'.value = (r \in EffortOnly)
                    /\ is_effort_input(r, TheBond(i))'.value = (r \in FlowOnly)

C19_SolvableIsOutput == [][C19_SolvableIsOutputStep]_vars

\* The loop of phase 2 has run to its end and has made a Resistance solvable
\* for effort only the flow-input endpoint of its bond, and one solvable for
\* flow only the effort-input endpoint of its bond.
C19_Witness ==
    /\ phase = 2 /\ pc = "propagate" /\ loop.passes = 0
    /\ \E r \in EffortOnly : \E i \in Incident(r) :
            is_flow_input(r, TheBond(i)) = [value |-> TRUE, exc |-> NoExc]
    /\ \E r \in FlowOnly : \E i \in Incident(r) :
            is_effort_input(r, TheBond(i)) = [value |-> TRUE, exc |-> NoExc]

\* C20: a propagation loop runs after each Resistance the loop of phase 2
\* assigns, before the next Resistance is examined: no step of phase 2 marks
\* the bonds of two Resistances without a propagation loop between them.
C20_PropagationPerResistance ==
    [][Phase2Loop => Cardinality(NewlyMarked) <= 1]_vars

---------------------------------------------------------------------------
(* Properties of the validation (checked under SpecConstruct) *)

\* The number of bond ends at element ekey: a bond from ekey to ekey counts
\* twice, as an outgoing and as an incoming bond.
BondEndsAt(ekey) ==
    Cardinality({i \in BondIds : bonds[i][1] = ekey})
        + Cardinality({i \in BondIds : bonds[i][2] = ekey})

ArityRuleMet(ekey) ==
    /\ KindOf(ekey) \in OnePortKinds => BondEndsAt(ekey) = 1
    /\ KindOf(ekey) \in TwoPortKinds => BondEndsAt(ekey) = 2
    /\ KindOf(ekey) \in JunctionKinds => BondEndsAt(ekey) >= 2

\* Every bond of the argument list has been made and attached, and
\* check_bonds has been called.
BondsChecked ==
    /\ pc \notin {"add_elements", "add_bonds", "check_bonds"}
    /\ ~(pc = "raised" /\ err.exc \in {ExcAlreadyIn, ExcDuplicateBonds, ExcNotIn})

\* C14: after all bonds are attached, construction has failed with the arity
\* error naming an element that breaks its rule if some element has a number
\* of bond ends its kind does not allow (one-port: 1, Transformer and Gyrator:
\* 2, junction: 2 or more), and has not failed with the arity error if every
\* element meets its rule.
C14_ArityValidation ==
    BondsChecked =>
        IF \E ekey \in ElementIds : ~ArityRuleMet(ekey)
        THEN /\ pc = "raised"
             /\ err.exc = ExcArity
             /\ err.element \in ElementIds
             /\ ~ArityRuleMet(err.element)
        ELSE ~(pc = "raised" /\ err.exc = ExcArity)

\* Construction failed with the arity error naming a Transformer with three
\* bond ends, in a graph that also has a rule-abiding element.
C14_Witness ==
    /\ pc = "raised"
    /\ err.exc = ExcArity
    /\ KindOf(err.element) = "Transformer"
    /\ BondEndsAt(err.element) = 3
    /\ \E ekey \in ElementIds : ArityRuleMet(ekey)

HasDuplicate(abl) == \E i, j \in 1..Len(abl) : i < j /\ abl[i] = abl[j]

\* C15: with a bond list that has a (start, end) pair twice (and elements of
\* different identifiers, so that __add_bonds is reached), construction gets
\* no further than __add_bonds, fails there with the duplicate-bond error and
\* at no time has a Bond object been made or attached to an element.
C15_DuplicateBond ==
    (HasDuplicate(args.bonds) /\ Reused(args.elements) = {}) =>
        /\ pc \in {"add_elements", "add_bonds", "raised"}
        /\ pc = "raised" => err.exc = ExcDuplicateBonds
        /\ bonds = <<>>
        /\ \A ekey \in DOMAIN in_bonds : in_bonds[ekey] = <<>> /\ out_bonds[ekey] = <<>>

\* Construction failed with the duplicate-bond error for a list whose first
\* bond names an unknown element and whose two other bonds are equal.
C15_Witness ==
    /\ pc = "raised"
    /\ err.exc = ExcDuplicateBonds
    /\ Len(args.bonds) = 3
    /\ args.bonds[1][1] \notin 1..Len(elements)
    /\ args.bonds[2] = args.bonds[3]
    /\ Len(elements) = 2

---------------------------------------------------------------------------
(* Properties of the assignment (checked under Spec), continued *)

ForcedOutputKinds == {"EffortSource", "FlowSensor", "EffortController"}
ForcedInputKinds == {"FlowSource", "EffortSensor", "FlowController"}

ForcedMarksHold ==
    \A ekey \in ElementIds : \A i \in Incident(ekey) :
        /\ KindOf(ekey) \in ForcedOutputKinds =>
                effort_causality_direction[i] = <<ekey, OtherEnd(TheBond(i), ekey)>>
        /\ KindOf(ekey) \in ForcedInputKinds =>
                effort_causality_direction[i] = <<OtherEnd(TheBond(i), ekey), ekey>>

\* C10: from the end of phase 1 on (unless phase 1 itself raised), through
\* every later phase and in the constructed graph, the bond of each
\* EffortSource, FlowSensor and EffortController has the other endpoint as
\* effort-input and the bond of each FlowSource, EffortSensor and
\* FlowController has the element itself as effort-input.
C10_ForcedMarks ==
    (pc # "phase1" /\ ~(pc = "raised" /\ err.phase = 1)) => ForcedMarksHold

\* A constructed graph with an effort-output element and an effort-input
\* element among sources, sensors and controllers.
C10_Witness ==
    /\ Done
    /\ \E ekey \in ElementIds : KindOf(ekey) \in ForcedOutputKinds
    /\ \E ekey \in ElementIds : KindOf(ekey) \in ForcedInputKinds

---------------------------------------------------------------------------
(* Properties of the order of construction (checked under SpecConstruct) *)

ValidationErrors == {ExcAlreadyIn, ExcDuplicateBonds, ExcNotIn, ExcArity}

NoBondMarked ==
    \A i \in DOMAIN effort_causality_direction :
        effort_causality_direction[i] = None /\ flow_causality_direction[i] = None

\* _assign_causalities has been called.
Assigning == phase >= 1

\* Until _assign_causalities is called no bond has a mark, and it is not
\* called when the validation raises; when it is called every element of the
\* argument list is registered, every bond of the list is made and attached
\* and every element meets its arity rule.
C27_OrderState ==
    /\ ~Assigning => NoBondMarked
    /\ (pc = "raised" /\ err.exc \in ValidationErrors) => (~Assigning /\ NoBondMarked)
    /\ pc \in {"add_elements", "add_bonds", "check_bonds"} => ~Assigning
    /\ Assigning =>
            /\ Len(elements) = Len(args.elements)
            /\ Reused(args.elements) = {}
            /\ bonds = args.bonds
            /\ ~HasDuplicate(args.bonds)
            /\ \A i \in BondIds : bonds[i][1] \in ElementIds /\ bonds[i][2] \in ElementIds
            /\ \A ekey \in ElementIds : ArityRuleMet(ekey)
            /\ ~(pc = "raised" /\ err.exc \in ValidationErrors)

\* The steps of __init__ follow one another, none is gone back to, and
\* _assign_causalities begins once, after the loop over check_bonds.
C27_OrderStep ==
    /\ pc' = "add_elements" => pc = "add_elements"
    /\ pc' = "add_bonds" => pc \in {"add_elements", "add_bonds"}
    /\ pc' = "check_bonds" => pc \in {"add_bonds", "check_bonds"}
    /\ pc' = "phase1" => pc \in {"check_bonds", "phase1"}
    /\ (~Assigning /\ Assigning') => (pc = "check_bonds" /\ pc' = "phase1")
    /\ Assigning => (Assigning' /\ pc' # "phase1")

\* C27: _assign_causalities runs once for a graph, after the registration of
\* the elements, the attachment of the bonds and the arity check of every
\* element have succeeded; when one of them raises (element identifier
\* reused, duplicate bond, unknown identifier, arity) no bond has a mark.
C27_Order == [](C27_OrderState) /\ [][C27_OrderStep]_vars

\* Construction failed with the arity error after two bonds or more were made
\* and attached.
C27_Witness ==
    /\ pc = "raised"
    /\ err.exc = ExcArity
    /\ Len(bonds) >= 2
    /\ NoBondMarked

\* C29: when construction has raised, the elements of the argument list have
\* the bond lists they had when __init__ was called.
C29_InputsUnchanged ==
    pc = "raised" =>
        \A i \in DOMAIN in_bonds :
            /\ in_bonds[i] = args.elements[i].in_bonds
            /\ out_bonds[i] = args.elements[i].out_bonds

---------------------------------------------------------------------------
(* Properties of phase 3 (checked under Spec) *)

Stores(kind) == {ekey \in ElementIds : KindOf(ekey) = kind}

StoreBondsSet(kind) == \A ekey \in Stores(kind) : \A i \in Incident(ekey) : IsSet(i)

\* The marks are a fixed point of the propagation: a pass changes and raises
\* nothing.
AtFixedPoint ==
    /\ propagate_causalities(Now).exc = NoExc
    /\ ~propagate_causalities(Now).change

\* A for-loop of phase 3 is at one of its stores only with the propagation at
\* a fixed point; the Inertance loop begins, and is left, with the bond of
\* every Capacitance marked, and phase 4 begins with that of every Inertance.
C22_StoresState ==
    /\ pc \in {"phase3C", "phase3I"} => AtFixedPoint
    /\ StepAt \in {"phase3I", "phase4"} => StoreBondsSet("Capacitance")
    /\ (StepAt = "phase4" \/ Done) => StoreBondsSet("Inertance")

\* A step of a for-loop of phase 3 raises nothing and marks one bond at most,
\* the first unmarked one it comes to: in the Capacitance loop that of a
\* Capacitance, which becomes its flow-input (effort-output) endpoint, in the
\* Inertance loop that of an Inertance, which becomes its effort-input
\* endpoint; a propagation loop follows each mark before the for-loop goes
\* on.  The Capacitance loop is not gone back to, and no step of phase 3, its
\* propagation included, changes the mark a bond has.
C22_StoresStep ==
    /\ pc \in {"phase3C", "phase3I"} =>
            /\ pc' # "raised"
            /\ Cardinality(NewlyMarked) <= 1
            /\ NewlyMarked # {} => (pc' = "propagate" /\ ret' = pc /\ loop'.passes = 0)
            /\ NewlyMarked = {} => pc' = (IF pc = "phase3C" THEN "phase3I" ELSE "phase4")
            /\ \A i \in NewlyMarked :
                    LET sb == StoreBonds(IF pc = "phase3C" THEN "Capacitance" ELSE "Inertance", 1)
                    IN  \E k \in cursor..Len(sb) : \E ekey \in ElementIds :
                        /\ cursor' = k + 1
                        /\ sb[k] = <<ekey, i>>
                        /\ \A j \in cursor..(k - 1) : IsSet(sb[j][2])
                        /\ pc = "phase3C" =>
                                /\ is_flow_input(ekey, TheBond(i))'.value = TRUE
                                /\ is_effort_input(ekey, TheBond(i))'.value = FALSE
                        /\ pc = "phase3I" =>
                                is_effort_input(ekey, TheBond(i))'.value = TRUE
            /\ NewlyMarked = {} =>
                    \A ekey \in Stores(IF pc = "phase3C" THEN "Capacitance" ELSE "Inertance") :
                        \A i \in Incident(ekey) : IsSet(i)
    /\ StepAt \in {"phase3I", "phase4"} => StepAt' # "phase3C"
    /\ phase = 3 =>
            \A i \in BondIds :
                IsSet(i) => /\ effort_causality_direction'[i] = effort_causality_direction[i]
                            /\ flow_causality_direction'[i] = flow_causality_direction[i]

\* C22: phase 3 visits all Capacitances, then all Inertances; it marks the bond
\* of a Capacitance that is unmarked when visited with the Capacitance as
\* flow-input (effort-output) endpoint and that of an Inertance with the
\* Inertance as effort-input endpoint, runs the propagation to a fixed point
\* after each such mark, and passes over a store whose bond is marked without
\* an exception and without changing the mark, derivative causality or not.
C22_Stores == [](C22_StoresState) /\ [][C22_StoresStep]_vars

\* A constructed graph of two Capacitances at a junction: the loop marked the
\* bond of one (integral causality), the propagation that of the other, which
\* the loop passed over and which is the effort-input endpoint of its bond
\* (derivative causality).
C22_Witness ==
    /\ Done
    /\ \E j \in ElementIds : is_junction(elements[j])
    /\ \E c \in Stores("Capacitance") : \E i \in Incident(c) :
            effort_causality_direction[i][1] = c
    /\ \E c \in Stores("Capacitance") : \E i \in Incident(c) :
            effort_causality_direction[i][2] = c

---------------------------------------------------------------------------
(* Properties of the rules of Transformers and Gyrators (checked under Spec) *)

ElementsOf(kind) == {ekey \in ElementIds : KindOf(ekey) = kind}

\* ekey is the effort-input endpoint of the marked bond i.
EffortInputAt(ekey, i) ==
    effort_causality_direction[i] # None /\ effort_causality_direction[i][2] = ekey

\* ekey is the effort-output endpoint of the marked bond i.
EffortOutputAt(ekey, i) ==
    /\ effort_causality_direction[i] # None
    /\ effort_causality_direction[i][1] = ekey
    /\ effort_causality_direction[i][2] # ekey

\* A propagation loop has ended without an exception (no mark has been made
\* since).
LoopEnded == pc \in {"phase2", "phase3C", "phase3I", "phase4", "done"}

C23_GyratorSameState ==
    LoopEnded =>
        \A g \in ElementsOf("Gyrator") : \A i \in Incident(g) : \A j \in Siblings(g, i) :
            /\ EffortInputAt(g, i) => EffortInputAt(g, j)
            /\ EffortOutputAt(g, i) => EffortOutputAt(g, j)

C23_GyratorSameStep ==
    (/\ pc = "propagate"
     /\ \E g \in ElementsOf("Gyrator") : \E i \in Incident(g) : \E j \in Siblings(g, i) :
            \/ EffortInputAt(g, i) /\ IsSet(j) /\ ~EffortInputAt(g, j)
            \/ EffortOutputAt(g, i) /\ IsSet(j) /\ ~EffortOutputAt(g, j))
        => (pc' = "raised" /\ err'.exc = ExcPropagation)

C25_TransformerRule ==
    /\ LoopEnded =>
            \A t \in ElementsOf("Transformer") :
                (\E i \in Incident(t) : IsSet(i)) =>
                    /\ \A i \in Incident(t) : IsSet(i)
                    /\ Cardinality(EffortInputsAt(t)) = 1
                    /\ \A i \in Incident(t) : \A j \in Siblings(t, i) :
                        /\ EffortInputAt(t, i) =>
                                /\ EffortInputAt(OtherEnd(TheBond(j), t), j)
                                /\ EffortOutputAt(t, j)
                        /\ EffortOutputAt(t, i) => EffortInputAt(t, j)
    /\ Done => \A t \in ElementsOf("Transformer") : Cardinality(EffortInputsAt(t)) = 1

\* A constructed graph with a Transformer between two different bonds whose
\* first bond has it as effort-output endpoint.
C25_Witness ==
    /\ Done
    /\ \E t \in ElementsOf("Transformer") :
            /\ Len(get_bonds(t)) = 2
            /\ get_bonds(t)[1] # get_bonds(t)[2]
            /\ EffortOutputAt(t, get_bonds(t)[1])
            /\ EffortInputAt(t, get_bonds(t)[2])

\* ekey is the flow-input endpoint of the marked bond i.
FlowInputAt(ekey, i) ==
    flow_causality_direction[i] # None /\ flow_causality_direction[i][2] = ekey

\* C26: when a propagation loop has ended without an exception the marks are
\* closed under the rules: one more pass over the junctions, Transformers and
\* Gyrators changes no mark, reports no change and raises nothing; every
\* sibling of a bond with a 0-junction as effort-input endpoint is marked and
\* has the junction at entry [0] of its effort direction (the junction puts
\* the effort out), and every sibling of a bond with a 1-junction as
\* flow-input endpoint is marked and has the junction at entry [0] of its flow
\* direction.
C26_FixedPoint ==
    LoopEnded =>
        /\ AtFixedPoint
        /\ propagate_causalities(Now).effort = effort_causality_direction
        /\ propagate_causalities(Now).flow = flow_causality_direction
        /\ \A e \in ElementsOf("CommonEffortJunction") :
                \A i \in Incident(e) : \A j \in Siblings(e, i) :
                    EffortInputAt(e, i) => EffortOutputAt(e, j)
        /\ \A e \in ElementsOf("CommonFlowJunction") :
                \A i \in Incident(e) : \A j \in Siblings(e, i) :
                    FlowInputAt(e, i) =>
                        /\ flow_causality_direction[j] # None
                        /\ flow_causality_direction[j][1] = e
                        /\ flow_causality_direction[j][2] # e

\* A propagation loop of phase 3 has ended after two passes or more with a
\* junction of three bonds that it has marked.
C26_Witness ==
    /\ pc \in {"phase3C", "phase3I"}
    /\ phase = 3
    /\ loop.passes >= 2
    /\ \E e \in ElementIds :
            /\ is_junction(elements[e])
            /\ Cardinality(Incident(e)) = 3
            /\ \A i \in Incident(e) : IsSet(i)

---------------------------------------------------------------------------
(* Properties of phase 2 on graphs with several sources (checked under      *)
(* SpecSources)                                                             *)

\* The Resistances whose equation sympy solves for neither variable
Unsolvable == {r \in Resistances : /\ ~elements[r].solvable_effort
                                   /\ ~elements[r].solvable_flow}

\* C21 as stated: the construction of a graph with a Resistance solvable for
\* neither effort nor flow ends with the "not solvable at all" exception, and
\* that exception names only such a Resistance.
C21_UnsolvableRaises ==
    /\ (Unsolvable # {} /\ Terminated) =>
            (pc = "raised" /\ err.exc = ExcNotSolvable)
    /\ err.exc = ExcNotSolvable => err.element \in Unsolvable

\* What is behind the loop of phase 2.
PastPhase2Loop ==
    \/ pc \in {"phase3C", "phase3I", "phase4", "done"}
    \/ pc = "propagate" /\ ret # "phase2"
    \/ pc = "raised" /\ err.phase > 2
    \/ pc = "raised" /\ err.phase = 2 /\ err.exc = ExcPropagation

\* C21, amended: a graph with a Resistance solvable for neither variable is
\* never constructed and nothing behind the loop of phase 2 is reached; the
\* loop of phase 2, when phase 1 and its propagation let construction reach
\* it, raises "not solvable at all" for the first such Resistance unless the
\* setter called for a Resistance before it raised a causal conflict; and the
\* exception "not solvable at all" names only such a Resistance, in phase 2.
C21_UnsolvableFailsState ==
    /\ Unsolvable # {} => ~PastPhase2Loop
    /\ err.exc = ExcNotSolvable =>
            (pc = "raised" /\ err.phase = 2 /\ err.element \in Unsolvable)

C21_UnsolvableFailsStep ==
    (Phase2Loop /\ Unsolvable # {}) =>
        /\ pc' = "raised"
        /\ \/ err'.exc = ExcNotSolvable /\ err'.element = Min(Unsolvable)
           \/ /\ IsCausalConflict(err'.exc)
              /\ \E r \in (EffortOnly \cup FlowOnly) : r < Min(Unsolvable)
                                                        /\ err'.bond \in Incident(r)

C21_UnsolvableFails == [](C21_UnsolvableFailsState) /\ [][C21_UnsolvableFailsStep]_vars

\* The loop of phase 2 has marked the bond of a Resistance solvable for effort
\* only and has then raised "not solvable at all" for a later Resistance.
C21_Witness ==
    /\ pc = "raised"
    /\ err.exc = ExcNotSolvable
    /\ \E r \in EffortOnly : r < err.element /\ \A i \in Incident(r) : IsSet(i)

----------------------------------------------------------------------------
(* Properties of the equations of two-ports (checked under SpecEquations)   *)

\* The positions in get_bonds() of the two-port ekey at which ekey is the
\* effort-input endpoint.
EffortInputPositions(ekey) ==
    {k \in 1..2 : is_effort_input(ekey, TheBond(get_bonds(ekey)[k])).value = TRUE}

\* C30: in a constructed graph every Transformer and every Gyrator is the
\* effort-input endpoint of exactly one of its two bonds, and asking for its
\* equations never raises the exception "Causality ... not fitting".
C30_TwoportCausalityFits ==
    /\ pc \in {"done", "equations"} =>
        \A ekey \in ElementsOf("Transformer") \cup ElementsOf("Gyrator") :
            Cardinality(EffortInputPositions(ekey)) = 1
    /\ pc = "equations" => err.exc # ExcNotFitting

----------------------------------------------------------------------------
(* Properties of the order of the loops of phase 3 (checked under           *)
(* SpecExchanged)                                                           *)

\* Both runs have ended: `previous` holds the outcome of the run in the order
\* of the code, the variables that of the run with the loops exchanged.
BothRunsEnded == previous # NoOutcome /\ pc \in {"done", "raised"}

\* Both runs raised the same exception in the same phase, or both returned
\* and left the same marks on every bond.
SameOutcome ==
    \/ /\ pc = "raised"
       /\ previous.pc = "raised"
       /\ err.exc = previous.err.exc
       /\ err.phase = previous.err.phase
    \/ /\ pc = "done"
       /\ previous.pc = "done"
       /\ OutcomeNow.marks = previous.marks

=============================================================================
